---------------------------- MODULE Spec2Model ----------------------------
(***************************************************************************)
(* MqttClient (src/mosquitto.h, src/mosquitto.cpp): a facade over the      *)
(* mosquitto client library.  The library (the "engine") is external: each *)
(* of its calls is modelled by the return code it hands back, drawn from   *)
(* Rc, and by the little engine state the facade's behaviour depends on.   *)
(***************************************************************************)
EXTENDS Integers, Sequences, FiniteSets

MaxFacades    == 2      \* MqttClient objects of one process
MaxTopics     == 2      \* topic strings
MaxHandlers   == 2      \* distinct non-empty callbacks
MaxByte       == 1      \* payload bytes 0..MaxByte (0 is the NUL byte)
MaxPayloadLen == 2      \* payload length in bytes
MaxErr        == 1      \* engine error codes 1..MaxErr
MaxRaceFacades == 1     \* facades of the step-by-step specification

MOSQ_ERR_SUCCESS == 0
kKeepaliveSec    == 60
kQoS             == 1

Facades  == 1..MaxFacades
Topics   == 1..MaxTopics
EmptyHandler == 0                       \* a CallbackType holding no target
Handlers == 0..MaxHandlers
Bytes    == 0..MaxByte
Rc       == 0..MaxErr
RaceFacades == 1..MaxRaceFacades

\* std::string values and message payloads: byte sequences, embedded NUL
\* bytes allowed.  The empty payload, for which the engine's message holds
\* a null pointer, is left out.
Payloads == UNION {[1..n -> Bytes] : n \in 1..MaxPayloadLen}

VARIABLES
    fstate,       \* fstate[f]: "none" | "alive" | "destroyed" (object lifetime)
    handles,      \* engine handles that exist (mosquitto_new, never freed here)
    loop,         \* loop[f]: mosquitto_loop_start succeeded on f's handle
    mSubscriptionHandlers,  \* mSubscriptionHandlers[k]: the table stored under key k
    libInits,     \* successful mosquitto_lib_init calls
    libCleanups,  \* mosquitto_lib_cleanup calls
    obs,          \* what the operation or hook that ran last did and returned
    lastSub,      \* history: lastSub[t] handler of the last successful subscribe
    subs,         \* history: the facades that subscribed successfully
    appPc,        \* application thread inside subscribe: "idle" | "writing"
    appPend,      \* the subscribe in progress
    hookPc,       \* engine thread inside messageCallback: "idle" | "reading"
    hookPend      \* the message being dispatched

vars == <<fstate, handles, loop, mSubscriptionHandlers, libInits, libCleanups,
          obs, lastSub, subs, appPc, appPend, hookPc, hookPend>>

raceVars == <<appPc, appPend, hookPc, hookPend>>

\* One engine call as the facade made it.
Call(fn, rc) ==
    [fn |-> fn, rc |-> rc, topic |-> 0, payload |-> <<>>, len |-> 0,
     qos |-> 0, retain |-> FALSE, keepalive |-> 0]

\* What an operation did: its arguments (0, <<>> where it has none), the
\* engine calls in order, its return value, how it ended, the tables and the
\* loops as they were before it; for a hook, the facade it got as
\* userdata, whether that facade was already destroyed, and the handler
\* invocations it made.
Op(op, calls, ret) ==
    [op |-> op, f |-> 0, topic |-> 0, handler |-> EmptyHandler, payload |-> <<>>,
     calls |-> calls, ret |-> ret, outcome |-> "returned", invoked |-> <<>>,
     dangling |-> FALSE, before |-> mSubscriptionHandlers, loopBefore |-> loop]

EmptyTable == [t \in {} |-> EmptyHandler]

Init ==
    /\ fstate = [f \in Facades |-> "none"]
    /\ handles = {}
    /\ loop = [f \in Facades |-> FALSE]
    /\ mSubscriptionHandlers = [k \in {0} \cup Facades |-> EmptyTable]
    /\ libInits = 0
    /\ libCleanups = 0
    /\ obs = [op |-> "none", f |-> 0, topic |-> 0, handler |-> EmptyHandler,
              payload |-> <<>>, calls |-> <<>>, ret |-> TRUE, outcome |-> "returned",
              invoked |-> <<>>, dangling |-> FALSE, before |-> mSubscriptionHandlers,
              loopBefore |-> loop]
    /\ lastSub = EmptyTable
    /\ subs = {}
    /\ appPc = "idle"
    /\ appPend = [f |-> 0, topic |-> 0, handler |-> EmptyHandler]
    /\ hookPc = "idle"
    /\ hookPend = [f |-> 0, topic |-> 0, seen |-> EmptyTable, raced |-> FALSE]

Called(calls, fn) == \E i \in 1..Len(calls) : calls[i].fn = fn

Accepted(calls, fn) ==
    \E i \in 1..Len(calls) : calls[i].fn = fn /\ calls[i].rc = MOSQ_ERR_SUCCESS

CountCalls(calls, fn) == Cardinality({i \in 1..Len(calls) : calls[i].fn = fn})

(***************************************************************************)
(* MqttClient::MqttClient.  A failed mosquitto_lib_init throws: no object  *)
(* comes to exist and nothing else is called.                              *)
(***************************************************************************)
Construct(f, initRc) ==
    /\ fstate[f] = "none"
    /\ \A g \in Facades : g < f => fstate[g] # "none"    \* objects are numbered as made
    /\ appPc = "idle"
    /\ IF initRc # MOSQ_ERR_SUCCESS
       THEN /\ obs' = [Op("construct", <<Call("lib_init", initRc)>>, FALSE)
                         EXCEPT !.outcome = "threw"]
            /\ UNCHANGED <<fstate, handles, libInits>>
       ELSE /\ obs' = Op("construct",
                          << Call("lib_init", initRc),
                             Call("new", MOSQ_ERR_SUCCESS),
                             Call("connect_callback_set", MOSQ_ERR_SUCCESS),
                             Call("publish_callback_set", MOSQ_ERR_SUCCESS),
                             Call("subscribe_callback_set", MOSQ_ERR_SUCCESS),
                             Call("message_callback_set", MOSQ_ERR_SUCCESS),
                             Call("username_pw_set", MOSQ_ERR_SUCCESS) >>, TRUE)
            /\ fstate' = [fstate EXCEPT ![f] = "alive"]
            /\ handles' = handles \cup {f}
            /\ libInits' = libInits + 1
    /\ UNCHANGED <<loop, mSubscriptionHandlers, libCleanups, lastSub, subs, raceVars>>

\* A destructor that gives up when disconnect fails.
DestructorCallsReturnEarly(discRc) ==
    IF discRc # MOSQ_ERR_SUCCESS
    THEN << Call("disconnect", discRc) >>
    ELSE << Call("disconnect", discRc), Call("lib_cleanup", MOSQ_ERR_SUCCESS) >>

(***************************************************************************)
(* MqttClient::~MqttClient: disconnect(), its result dropped, then         *)
(* mosquitto_lib_cleanup().  Neither mosquitto_loop_stop nor               *)
(* mosquitto_destroy is called: the handle and the loop stay as they are.  *)
(***************************************************************************)
DestructorCalls(discRc) ==
    << Call("disconnect", discRc), Call("lib_cleanup", MOSQ_ERR_SUCCESS) >>

Destroy(f, discRc) ==
    /\ fstate[f] = "alive"
    /\ appPc = "idle"
    /\ LET calls == DestructorCalls(discRc) IN
       /\ obs' = Op("destroy", calls, TRUE)
       /\ fstate' = [fstate EXCEPT ![f] = "destroyed"]
       /\ loop' = [loop EXCEPT ![f] =
                      IF Called(calls, "loop_stop") THEN FALSE ELSE @]
       /\ handles' = IF Called(calls, "destroy") THEN handles \ {f} ELSE handles
       /\ libCleanups' = libCleanups + CountCalls(calls, "lib_cleanup")
    /\ UNCHANGED <<mSubscriptionHandlers, libInits, lastSub, subs, raceVars>>

(***************************************************************************)
(* MqttClient::setupOptions: mosquitto_tls_set, then mosquitto_opts_set;   *)
(* the first error code is returned.  The ifstream check of the CA         *)
(* certificate before them only warns (the warning is commented out).      *)
(***************************************************************************)
setupOptions(tlsRc, optsRc) ==
    IF tlsRc # MOSQ_ERR_SUCCESS
    THEN [calls |-> <<Call("tls_set", tlsRc)>>, rc |-> tlsRc]
    ELSE [calls |-> <<Call("tls_set", tlsRc), Call("opts_set", optsRc)>>,
          rc |-> optsRc]

ConnectAsyncCall(rc) == [Call("connect_async", rc) EXCEPT !.keepalive = kKeepaliveSec]

\* A connect that drops the result of setupOptions and goes on.
connectIgnoreSetup(tlsRc, optsRc, connRc, loopRc) ==
    LET so == setupOptions(tlsRc, optsRc) IN
    IF connRc # MOSQ_ERR_SUCCESS
    THEN [calls |-> so.calls \o <<ConnectAsyncCall(connRc)>>, ret |-> FALSE]
    ELSE [calls |-> so.calls \o <<ConnectAsyncCall(connRc), Call("loop_start", loopRc)>>,
          ret |-> (loopRc = MOSQ_ERR_SUCCESS)]

\* MqttClient::connect as [calls, ret].
connect(tlsRc, optsRc, connRc, loopRc) ==
    LET so == setupOptions(tlsRc, optsRc) IN
    IF so.rc # MOSQ_ERR_SUCCESS
    THEN [calls |-> so.calls, ret |-> FALSE]
    ELSE IF connRc # MOSQ_ERR_SUCCESS
    THEN [calls |-> so.calls \o <<ConnectAsyncCall(connRc)>>, ret |-> FALSE]
    ELSE IF loopRc # MOSQ_ERR_SUCCESS
    THEN [calls |-> so.calls \o <<ConnectAsyncCall(connRc), Call("loop_start", loopRc)>>,
          ret |-> FALSE]
    ELSE [calls |-> so.calls \o <<ConnectAsyncCall(connRc), Call("loop_start", loopRc)>>,
          ret |-> TRUE]

Connect(f, tlsRc, optsRc, connRc, loopRc) ==
    /\ fstate[f] = "alive"
    /\ appPc = "idle"
    /\ LET r == connect(tlsRc, optsRc, connRc, loopRc) IN
       /\ obs' = [Op("connect", r.calls, r.ret) EXCEPT !.f = f]
       /\ loop' = [loop EXCEPT ![f] =
                      IF Accepted(r.calls, "loop_start") THEN TRUE ELSE @]
    /\ UNCHANGED <<fstate, handles, mSubscriptionHandlers, libInits, libCleanups,
                   lastSub, subs, raceVars>>

(***************************************************************************)
(* MqttClient::disconnect                                                  *)
(***************************************************************************)
disconnect(rc) ==
    [calls |-> <<Call("disconnect", rc)>>, ret |-> (rc = MOSQ_ERR_SUCCESS)]

Disconnect(f, rc) ==
    /\ fstate[f] = "alive"
    /\ appPc = "idle"
    /\ LET r == disconnect(rc) IN
       obs' = Op("disconnect", r.calls, r.ret)
    /\ UNCHANGED <<fstate, handles, loop, mSubscriptionHandlers, libInits,
                   libCleanups, lastSub, subs, raceVars>>

(***************************************************************************)
(* MqttClient::send: mosquitto_publish(handle, nullptr, topic.c_str(),     *)
(* message.size(), message.c_str(), kQoS, true).                           *)
(***************************************************************************)
PublishCall(topic, message, rc) ==
    [Call("publish", rc) EXCEPT !.topic = topic, !.len = Len(message),
        !.payload = message, !.qos = kQoS, !.retain = TRUE]

\* A send that drops the engine's error code.
sendIgnoresError(topic, message, rc) ==
    [calls |-> <<PublishCall(topic, message, rc)>>, ret |-> TRUE]

send(topic, message, rc) ==
    [calls |-> <<PublishCall(topic, message, rc)>>, ret |-> (rc = MOSQ_ERR_SUCCESS)]

Send(f, topic, message, rc) ==
    /\ fstate[f] = "alive"
    /\ appPc = "idle"
    /\ LET r == send(topic, message, rc) IN
       obs' = [Op("send", r.calls, r.ret) EXCEPT !.topic = topic,
                                                 !.payload = message]
    /\ UNCHANGED <<fstate, handles, loop, mSubscriptionHandlers, libInits,
                   libCleanups, lastSub, subs, raceVars>>

\* A table per facade (a non-static member).
TableKeyPerInstance(f) == f

(***************************************************************************)
(* The subscription table.  mSubscriptionHandlers is a static member: one  *)
(* table for the process, whatever facade asks (key 0).                    *)
(***************************************************************************)
TableKey(f) == 0

getSubscriptionTable(f) == mSubscriptionHandlers[TableKey(f)]

\* An insert that keeps an entry already present (emplace, insert).
TableInsertOnly(tbl, topic, callback) ==
    [t \in DOMAIN tbl \cup {topic} |->
        IF t \in DOMAIN tbl THEN tbl[t] ELSE callback]

\* mSubscriptionHandlers[topic] = callback: insert the key if absent, assign.
TableAssign(tbl, topic, callback) ==
    [t \in DOMAIN tbl \cup {topic} |-> IF t = topic THEN callback ELSE tbl[t]]

(***************************************************************************)
(* MqttClient::subscribe: mosquitto_subscribe at kQoS; the table is        *)
(* written only when the engine returned MOSQ_ERR_SUCCESS.                 *)
(***************************************************************************)
SubscribeCall(topic, rc) ==
    [Call("subscribe", rc) EXCEPT !.topic = topic, !.qos = kQoS]

\* A subscribe that writes the table before it looks at the engine's answer.
subscribeWriteFirst(tbl, topic, callback, rc) ==
    [calls |-> <<SubscribeCall(topic, rc)>>, ret |-> (rc = MOSQ_ERR_SUCCESS),
     table |-> TableAssign(tbl, topic, callback)]

subscribe(tbl, topic, callback, rc) ==
    IF rc # MOSQ_ERR_SUCCESS
    THEN [calls |-> <<SubscribeCall(topic, rc)>>, ret |-> FALSE, table |-> tbl]
    ELSE [calls |-> <<SubscribeCall(topic, rc)>>, ret |-> TRUE,
          table |-> TableAssign(tbl, topic, callback)]

\* The history of successful subscribes, kept beside the program's state.
Record(f, topic, callback, ret) ==
    /\ lastSub' = IF ret
                  THEN [t \in DOMAIN lastSub \cup {topic} |->
                          IF t = topic THEN callback ELSE lastSub[t]]
                  ELSE lastSub
    /\ subs' = IF ret THEN subs \cup {f} ELSE subs

SubscribeOp(f, topic, callback, r) ==
    [Op("subscribe", r.calls, r.ret) EXCEPT !.f = f, !.topic = topic,
                                            !.handler = callback]

Subscribe(f, topic, callback, rc) ==
    /\ fstate[f] = "alive"
    /\ appPc = "idle"
    /\ LET r == subscribe(getSubscriptionTable(f), topic, callback, rc) IN
       /\ obs' = SubscribeOp(f, topic, callback, r)
       /\ mSubscriptionHandlers' =
             [mSubscriptionHandlers EXCEPT ![TableKey(f)] = r.table]
       /\ Record(f, topic, callback, r.ret)
    /\ UNCHANGED <<fstate, handles, loop, libInits, libCleanups, raceVars>>

(***************************************************************************)
(* messageCallback.  The engine hands over the payload bytes followed by a *)
(* NUL byte; the code passes them on as a char*, so the handler's string   *)
(* argument is built from a C string.                                      *)
(***************************************************************************)
EngineBuffer(payload) == payload \o <<0>>

RECURSIVE CStr(_)
CStr(buf) ==
    IF buf = <<>> \/ Head(buf) = 0 THEN <<>>
    ELSE <<Head(buf)>> \o CStr(Tail(buf))

\* A check of the end iterator alone.
ShouldDropMissingOnly(tbl, topic) == topic \notin DOMAIN tbl

\* (it == subscriptionTable.end()) || (nullptr == it->second)
ShouldDrop(tbl, topic) == topic \notin DOMAIN tbl \/ tbl[topic] = EmptyHandler

Invocation(h, topic, payload) == [handler |-> h, topic |-> topic, payload |-> payload]

\* The hook as [invoked, outcome].  Past the early return the code
\* dereferences it and calls it->second: the end iterator crashes, an empty
\* std::function throws.
messageCallback(tbl, topic, buf) ==
    IF ShouldDrop(tbl, topic)
    THEN [invoked |-> <<>>, outcome |-> "returned"]
    ELSE IF topic \notin DOMAIN tbl
    THEN [invoked |-> <<>>, outcome |-> "crashed"]
    ELSE IF tbl[topic] = EmptyHandler
    THEN [invoked |-> <<>>, outcome |-> "threw"]
    ELSE [invoked |-> <<Invocation(tbl[topic], topic, CStr(buf))>>,
          outcome |-> "returned"]

HookOp(f, topic, payload, r) ==
    [Op("message", <<>>, TRUE) EXCEPT !.f = f, !.topic = topic,
        !.payload = payload, !.invoked = r.invoked,
        !.outcome = r.outcome, !.dangling = (fstate[f] # "alive")]

\* The engine's thread delivers a message on f's handle; userdata is the
\* facade the handle was created for, whether or not it still exists.
\* getSubscriptionTable is not virtual and reads no member of the object, so
\* called on a destroyed facade it still hands back the static table; obs
\* records that the userdata was dangling.
MessageArrive(f, topic, payload) ==
    /\ f \in handles
    /\ loop[f]
    /\ hookPc = "idle"
    /\ obs' = HookOp(f, topic, payload,
                      messageCallback(getSubscriptionTable(f), topic,
                                      EngineBuffer(payload)))
    /\ UNCHANGED <<fstate, handles, loop, mSubscriptionHandlers, libInits,
                   libCleanups, lastSub, subs, raceVars>>

(***************************************************************************)
(* connectCallback, publishCallback, subscribeCallback: they log, nothing  *)
(* else.                                                                   *)
(***************************************************************************)
AckHooks == {"connect_ack", "publish_ack", "subscribe_ack"}

Ack(f, hook) ==
    /\ f \in handles
    /\ loop[f]
    /\ hookPc = "idle"
    /\ obs' = [Op(hook, <<>>, TRUE) EXCEPT !.f = f,
                                           !.dangling = (fstate[f] # "alive")]
    /\ UNCHANGED <<fstate, handles, loop, mSubscriptionHandlers, libInits,
                   libCleanups, lastSub, subs, raceVars>>

(***************************************************************************)
(* The two threads step by step.  subscribe runs on the application        *)
(* thread and messageCallback on the engine's thread; the table write      *)
(* (line 143) and the lookup with the later use of its iterator (lines     *)
(* 39-44) each take time.  <mutex> is included but no lock is declared or  *)
(* taken: a thread enters the table whatever the other one is doing.       *)
(***************************************************************************)
\* A mutex around the table: a thread waits while the other one is inside.
MayEnterLocked(otherPc) == otherPc = "idle"

MayEnter(otherPc) == TRUE

IdlePend == [f |-> 0, topic |-> 0, handler |-> EmptyHandler]

IdleHook == [f |-> 0, topic |-> 0, seen |-> EmptyTable, raced |-> FALSE]

\* subscribe up to the start of the table write; an engine error returns.
SubscribeEnter(f, topic, callback, rc) ==
    /\ fstate[f] = "alive"
    /\ appPc = "idle"
    /\ IF rc # MOSQ_ERR_SUCCESS
       THEN /\ obs' = SubscribeOp(f, topic, callback,
                                  subscribe(getSubscriptionTable(f), topic, callback, rc))
            /\ UNCHANGED <<appPc, appPend, hookPend>>
       ELSE /\ MayEnter(hookPc)
            /\ appPc' = "writing"
            /\ appPend' = [f |-> f, topic |-> topic, handler |-> callback]
            /\ hookPend' = IF hookPc = "reading"
                           THEN [hookPend EXCEPT !.raced = TRUE] ELSE hookPend
            /\ UNCHANGED obs
    /\ UNCHANGED <<fstate, handles, loop, mSubscriptionHandlers, libInits,
                   libCleanups, lastSub, subs, hookPc>>

\* The table write completes and subscribe returns true.
SubscribeFinish ==
    /\ appPc = "writing"
    /\ LET f == appPend.f
           r == subscribe(getSubscriptionTable(f), appPend.topic, appPend.handler,
                          MOSQ_ERR_SUCCESS) IN
       /\ obs' = SubscribeOp(f, appPend.topic, appPend.handler, r)
       /\ mSubscriptionHandlers' =
             [mSubscriptionHandlers EXCEPT ![TableKey(f)] = r.table]
       /\ Record(f, appPend.topic, appPend.handler, r.ret)
    /\ appPc' = "idle"
    /\ appPend' = IdlePend
    /\ UNCHANGED <<fstate, handles, loop, libInits, libCleanups, hookPc,
                   hookPend>>

\* messageCallback up to the lookup: it holds an iterator into the table.
HookEnter(f, topic) ==
    /\ f \in handles
    /\ loop[f]
    /\ hookPc = "idle"
    /\ MayEnter(appPc)
    /\ hookPc' = "reading"
    /\ hookPend' = [f |-> f, topic |-> topic, seen |-> getSubscriptionTable(f),
                    raced |-> (appPc = "writing")]
    /\ UNCHANGED <<fstate, handles, loop, mSubscriptionHandlers, libInits,
                   libCleanups, obs, lastSub, subs, appPc, appPend>>

\* What a lookup that overlapped a write can do: a data race, so anything
\* the build produces: the old entry, the new one, no entry, a crash.
RacedResults(f, topic, buf) ==
    { messageCallback(hookPend.seen, topic, buf),
      messageCallback(getSubscriptionTable(f), topic, buf),
      [invoked |-> <<>>, outcome |-> "returned"],
      [invoked |-> <<>>, outcome |-> "crashed"] }

\* The rest of messageCallback: the check of the iterator and the call,
\* which is where the payload bytes of the message are read.
HookFinish(payload) ==
    /\ hookPc = "reading"
    /\ LET f == hookPend.f
           buf == EngineBuffer(payload) IN
       \E r \in IF hookPend.raced
                THEN RacedResults(f, hookPend.topic, buf)
                ELSE {messageCallback(hookPend.seen, hookPend.topic, buf)} :
          obs' = HookOp(f, hookPend.topic, payload, r)
    /\ hookPc' = "idle"
    /\ hookPend' = IdleHook
    /\ UNCHANGED <<fstate, handles, loop, mSubscriptionHandlers, libInits,
                   libCleanups, lastSub, subs, appPc, appPend>>

Next ==
    \/ \E f \in Facades, rc \in Rc : Construct(f, rc)
    \/ \E f \in Facades, rc \in Rc : Destroy(f, rc)
    \/ \E f \in Facades, r1, r2, r3, r4 \in Rc : Connect(f, r1, r2, r3, r4)
    \/ \E f \in Facades, rc \in Rc : Disconnect(f, rc)
    \/ \E f \in Facades, t \in Topics, m \in Payloads, rc \in Rc : Send(f, t, m, rc)
    \/ \E f \in Facades, t \in Topics, h \in Handlers, rc \in Rc :
          Subscribe(f, t, h, rc)
    \/ \E f \in Facades, t \in Topics, m \in Payloads : MessageArrive(f, t, m)
    \/ \E f \in Facades, hook \in AckHooks : Ack(f, hook)

Spec == Init /\ [][Next]_vars

NextRace ==
    \/ \E f \in RaceFacades, rc \in Rc : Construct(f, rc)
    \/ \E f \in RaceFacades, rc \in Rc : Destroy(f, rc)
    \/ \E f \in RaceFacades, r1, r2, r3, r4 \in Rc : Connect(f, r1, r2, r3, r4)
    \/ \E f \in RaceFacades, t \in Topics, h \in Handlers, rc \in Rc :
          SubscribeEnter(f, t, h, rc)
    \/ SubscribeFinish
    \/ \E f \in RaceFacades, t \in Topics : HookEnter(f, t)
    \/ \E m \in Payloads : HookFinish(m)

SpecRace == Init /\ [][NextRace]_vars

(***************************************************************************)
(* The claims.  Before(f) is the table facade f used, as it was before     *)
(* the operation obs describes.                                            *)
(***************************************************************************)
Before(f) == obs.before[TableKey(f)]

Registered(t) == t \in DOMAIN lastSub /\ lastSub[t] # EmptyHandler

\* C1: a message on a topic whose last successful subscribe gave a handler
\* invokes that handler exactly once, with the topic and the payload byte
\* for byte.
C1_VerbatimPayload ==
    (obs.op = "message" /\ Registered(obs.topic))
    => obs.invoked = <<Invocation(lastSub[obs.topic], obs.topic, obs.payload)>>

\* C1, the part the code keeps: the handler is invoked exactly once, with the
\* topic, and with the payload's bytes up to its first NUL byte.
C1_PayloadUpToNul ==
    (obs.op = "message" /\ Registered(obs.topic))
    => /\ Len(obs.invoked) = 1
       /\ obs.invoked[1].handler = lastSub[obs.topic]
       /\ obs.invoked[1].topic = obs.topic
       /\ LET p == obs.invoked[1].payload
              m == obs.payload IN
          /\ Len(p) <= Len(m)
          /\ \A i \in 1..Len(p) : p[i] = m[i] /\ p[i] # 0
          /\ Len(p) < Len(m) => m[Len(p) + 1] = 0

C3_SilentDrop ==
    (/\ obs.op = "message"
     /\ \/ obs.topic \notin DOMAIN Before(obs.f)
        \/ Before(obs.f)[obs.topic] = EmptyHandler)
    => /\ obs.invoked = <<>>
       /\ obs.outcome = "returned"
       /\ mSubscriptionHandlers = obs.before

\* C3's case: a message was dropped on a topic registered with an empty
\* handler, while the other topics have a handler.
C3_Witness ==
    /\ obs.op = "message" /\ obs.invoked = <<>> /\ obs.outcome = "returned"
    /\ obs.topic \in DOMAIN Before(obs.f)
    /\ Before(obs.f)[obs.topic] = EmptyHandler
    /\ \A t \in Topics \ {obs.topic} : Registered(t)

\* C4: connect calls tls_set, opts_set, connect_async, loop_start in this
\* order, stops at the first one that reports an error and then returns
\* false; it returns true only after all four succeeded; the loop is started
\* by nothing but an accepted loop_start.
C4_ConnectOrder ==
    obs.op = "connect"
    => LET c == obs.calls
           order == <<"tls_set", "opts_set", "connect_async", "loop_start">>
           n == Len(c) IN
       /\ n \in 1..4
       /\ \A i \in 1..n : c[i].fn = order[i]
       /\ \A i \in 1..(n - 1) : c[i].rc = MOSQ_ERR_SUCCESS
       /\ n < 4 => c[n].rc # MOSQ_ERR_SUCCESS
       /\ obs.ret <=> (n = 4 /\ c[4].rc = MOSQ_ERR_SUCCESS)
       /\ n >= 3 => c[3].keepalive = 60
       /\ loop = [obs.loopBefore EXCEPT ![obs.f] = @ \/ obs.ret]
       /\ mSubscriptionHandlers = obs.before

\* C4's case: TLS configuration failed; connect returned false after that
\* one call and the loop is not running.
C4_Witness ==
    /\ obs.op = "connect" /\ ~obs.ret
    /\ Len(obs.calls) = 1 /\ obs.calls[1].rc # MOSQ_ERR_SUCCESS
    /\ ~loop[obs.f]

\* C5: send makes one publish request, with the topic, the whole message
\* and its size, QoS 1 and the retained flag; it returns true exactly when
\* the engine accepted the request; it changes no table; the acknowledgement
\* hooks change nothing.
C5_Send ==
    /\ obs.op = "send"
       => /\ Len(obs.calls) = 1
          /\ LET c == obs.calls[1] IN
             /\ c.fn = "publish"
             /\ c.topic = obs.topic
             /\ c.payload = obs.payload
             /\ c.len = Len(obs.payload)
             /\ c.qos = 1
             /\ c.retain
             /\ obs.ret <=> (c.rc = MOSQ_ERR_SUCCESS)
          /\ mSubscriptionHandlers = obs.before
          /\ loop = obs.loopBefore
    /\ obs.op \in AckHooks
       => /\ mSubscriptionHandlers = obs.before
          /\ loop = obs.loopBefore
          /\ obs.calls = <<>>

\* C5's case: the engine refused a publish whose message holds a NUL byte.
C5_Witness ==
    /\ obs.op = "send" /\ ~obs.ret
    /\ \E i \in 1..Len(obs.payload) : obs.payload[i] = 0

\* C6: every destructor run calls disconnect, drops its result, calls
\* mosquitto_lib_cleanup once and returns; a live facade can always be
\* destroyed; the cleanups never outnumber the successful initialisations
\* and equal them once no facade is alive.
C6_Runtime ==
    /\ libCleanups <= libInits
    /\ libInits = Cardinality({f \in Facades : fstate[f] # "none"})
    /\ libCleanups = Cardinality({f \in Facades : fstate[f] = "destroyed"})
    /\ (\A f \in Facades : fstate[f] # "alive") => libCleanups = libInits
    /\ obs.op = "destroy"
       => /\ obs.outcome = "returned"
          /\ Len(obs.calls) = 2
          /\ obs.calls[1].fn = "disconnect"
          /\ obs.calls[2].fn = "lib_cleanup"
    /\ (obs.op = "construct" /\ ~obs.ret)
       => /\ obs.outcome = "threw"
          /\ Len(obs.calls) = 1
          /\ obs.calls[1].rc # MOSQ_ERR_SUCCESS
    /\ \A f \in Facades : (fstate[f] = "alive" /\ appPc = "idle")
          => \A rc \in Rc : ENABLED Destroy(f, rc)

\* C6's case: every facade was made and destroyed, one of them with its loop
\* started and one never connected, and the last disconnect failed.
C6_Witness ==
    /\ \A f \in Facades : fstate[f] = "destroyed"
    /\ \E f \in Facades : loop[f]
    /\ \E f \in Facades : ~loop[f]
    /\ obs.op = "destroy" /\ obs.calls[1].rc # MOSQ_ERR_SUCCESS
    /\ libCleanups = MaxFacades

\* C7: subscribe returns true exactly when the engine accepted the request
\* (made at QoS 1 for the topic); a refused request leaves every table as it
\* was, so the table changes only after the engine accepted.
C7_SubscribeFailure ==
    obs.op = "subscribe"
    => /\ Len(obs.calls) = 1
       /\ obs.calls[1].fn = "subscribe"
       /\ obs.calls[1].topic = obs.topic
       /\ obs.calls[1].qos = 1
       /\ obs.ret <=> (obs.calls[1].rc = MOSQ_ERR_SUCCESS)
       /\ ~obs.ret => mSubscriptionHandlers = obs.before
       /\ mSubscriptionHandlers # obs.before => obs.calls[1].rc = MOSQ_ERR_SUCCESS
       /\ \A t \in DOMAIN lastSub : getSubscriptionTable(obs.f)[t] = lastSub[t]

\* C7's case: a refused subscribe of another handler on a topic that has a
\* handler, which stays.
C7_Witness ==
    /\ obs.op = "subscribe" /\ ~obs.ret
    /\ Registered(obs.topic)
    /\ obs.handler \notin {EmptyHandler, lastSub[obs.topic]}
    /\ getSubscriptionTable(obs.f)[obs.topic] = lastSub[obs.topic]

\* C8: once a facade is destroyed its engine handle no longer exists and no
\* loop runs on it, so no hook runs with a destroyed facade as userdata.
C8_HandleDiesWithFacade ==
    /\ \A f \in Facades : fstate[f] = "destroyed" => (f \notin handles /\ ~loop[f])
    /\ ~obs.dangling

\* C9: nothing keeps the two threads apart: while subscribe writes the
\* table the hook can start its lookup, while the hook holds its iterator
\* subscribe can start its write, and whenever both are in progress the
\* lookup is one that overlapped a write.
C9_NoExclusion ==
    /\ (appPc = "writing" /\ hookPc = "idle")
       => \A f \in RaceFacades : (f \in handles /\ loop[f])
             => \A t \in Topics : ENABLED HookEnter(f, t)
    /\ (hookPc = "reading" /\ appPc = "idle")
       => \A f \in RaceFacades : fstate[f] = "alive"
             => \A t \in Topics, h \in Handlers :
                   ENABLED SubscribeEnter(f, t, h, MOSQ_ERR_SUCCESS)
    /\ (appPc = "writing" /\ hookPc = "reading") => hookPend.raced

\* C9's case: the write of a topic's entry and the lookup of the same topic
\* are in progress at once.
C9_Witness ==
    /\ appPc = "writing" /\ hookPc = "reading"
    /\ appPend.topic = hookPend.topic
    /\ appPend.f = hookPend.f

=============================================================================
